---------------------------- MODULE Spec2Model ----------------------------
(***************************************************************************)
(* Model of the segment-based dubbing pipeline of EduDub AI: pause-based   *)
(* speaker diarization, voice assignment, duration adjustment and audio    *)
(* mixing.  All times are integers in milliseconds.  Text is a sequence    *)
(* of tokens (words and the separator " ").  A speaker id is the token     *)
(* "SPEAKER_" followed by its decimal digits.                              *)
(***************************************************************************)
EXTENDS Integers, Sequences, FiniteSets, TLC

VARIABLES
    pc,                 \* position of the running function / pipeline
    segments,           \* transcript_data['segments'] (speaker set in place)
    speaker_segments,   \* merged speaker turns
    clip,               \* one generated voice segment and its adjustment
    all_voices,         \* what the voice provider lists (fetch_murf_voices)
    voice_cache,        \* the voices kept for reuse during the session
    target_lang,        \* the language the voices are filtered by
    speaker_genders,    \* speaker -> gender, in first-seen order
    speaker_voice_map,  \* speaker -> voice of the last assignment
    prev_voice_map,     \* the assignment before the last one
    alloc_runs,         \* how often assign_voices_to_speakers has run
    video_duration,     \* length of the uploaded video
    background,         \* the extracted background track
    segments_info,      \* the adjusted, positioned dubbed segments
    mixed,              \* the mixed audio
    job_state,          \* what the status of the job reports: stage, percent, error
    running,            \* a stage of the job is executing
    provider_calls,     \* the providers the job has called so far
    cancel_requested,   \* a cancellation of the job has been asked for
    speakers_json,      \* the persisted speakers.json of the job
    ui,                 \* the upload page: client, loading, progress, dubbedVideo
    pending             \* the page's requests in flight and its poll timers

seg_vars == <<segments, speaker_segments>>

dur_vars == <<clip>>

voice_vars == <<all_voices, voice_cache, target_lang, speaker_genders,
                speaker_voice_map, prev_voice_map, alloc_runs>>

pipe_vars == <<video_duration, background, segments_info, mixed>>

job_vars == <<job_state, running, provider_calls, cancel_requested, speakers_json, ui,
              pending>>

vars == <<pc, seg_vars, dur_vars, voice_vars, pipe_vars, job_vars>>

(***************************************************************************)
(* Bounds of the model and program constants.                              *)
(***************************************************************************)
MaxSegs == 4

MaxDurSteps == 20

MaxSpeakers == 9

MaxAllocRuns == 2

MaxPipeSegs == 3

MaxTextLen == 2

MaxMixTurns == 3

MaxPending == 2

silence_threshold == 800

merge_gap == 1000

\* Pauses between consecutive transcript segments that the inputs are built
\* from: an overlap, no pause, a short pause, the threshold itself, just
\* above it, and two long pauses.
GapChoices == {-200, 0, 300, 800, 900, 1200, 1500}

DurationChoices == {200, 500}

NoSpeaker == <<>>

NoClip == [current_duration |-> 0]

(***************************************************************************)
(* Strings that the program searches are sequences of characters.          *)
(***************************************************************************)
LowerChar(c) ==
    CASE c = "F" -> "f"
      [] c = "H" -> "h"
      [] c = "M" -> "m"
      [] c = "N" -> "n"
      [] c = "S" -> "s"
      [] OTHER -> c

\* str.lower()
Lower(str) == [i \in 1..Len(str) |-> LowerChar(str[i])]

\* needle in hay
Contains(needle, hay) ==
    \E i \in 0..(Len(hay) - Len(needle)) :
        SubSeq(hay, i + 1, i + Len(needle)) = needle

male == <<"m", "a", "l", "e">>

female == <<"f", "e", "m", "a", "l", "e">>

neutral == <<"n", "e", "u", "t", "r", "a", "l">>

hindi == <<"h", "i", "n", "d", "i">>

\* The voices a provider may list, in the order it lists them.
Catalogue ==
    << [name |-> "Priya", voiceId |-> "en-IN-priya",
        gender |-> <<"F", "e", "m", "a", "l", "e">>,
        languageName |-> <<"H", "i", "n", "d", "i">>],
       [name |-> "Arjun", voiceId |-> "en-IN-arjun",
        gender |-> <<"M", "a", "l", "e">>,
        languageName |-> <<"H", "i", "n", "d", "i">>],
       [name |-> "Rohan", voiceId |-> "en-IN-rohan",
        gender |-> <<"M", "a", "l", "e">>,
        languageName |-> <<"H", "i", "n", "d", "i">>],
       [name |-> "Carlos", voiceId |-> "es-ES-carlos",
        gender |-> <<"M", "a", "l", "e">>,
        languageName |-> <<"S", "p", "a", "n", "i", "s", "h">>],
       [name |-> "Kiran", voiceId |-> "en-IN-kiran",
        gender |-> <<"N", "o", "n", "b", "i", "n", "a", "r", "y">>,
        languageName |-> <<"H", "i", "n", "d", "i">>] >>

\* The voices of the catalogue that keep[i] selects, in catalogue order.
RECURSIVE Listed(_, _)
Listed(keep, n) ==
    IF n = 0 THEN <<>>
    ELSE IF keep[n] THEN Append(Listed(keep, n - 1), Catalogue[n])
    ELSE Listed(keep, n - 1)

Reverse(seq) == [i \in 1..Len(seq) |-> seq[Len(seq) + 1 - i]]

NotCached == [cached |-> FALSE]

NoMap == [map |-> <<>>, error |-> FALSE]

NoTrack == [extracted |-> FALSE]

NoMix == [mixed |-> FALSE]

NoError == [stage |-> "", cause |-> ""]

NoFile == [written |-> FALSE]

NoPending == [post |-> 0, poll |-> 0, result |-> 0, transcript |-> 0, timer |-> 0]

\* No job is running and the upload page is idle.
NoJobState ==
    /\ job_state = [stage |-> "idle", percent |-> 0, attempts |-> 0, error |-> NoError]
    /\ running = FALSE
    /\ provider_calls = {}
    /\ cancel_requested = FALSE
    /\ speakers_json = NoFile
    /\ ui = [client |-> "Upload", loading |-> FALSE, progress |-> <<"Idle">>,
             dubbedVideo |-> "none"]
    /\ pending = NoPending

NoPipeState ==
    /\ video_duration = 0
    /\ background = NoTrack
    /\ segments_info = <<>>
    /\ mixed = NoMix

NoVoiceState ==
    /\ all_voices = <<>>
    /\ voice_cache = NotCached
    /\ target_lang = hindi
    /\ speaker_genders = <<>>
    /\ speaker_voice_map = NoMap
    /\ prev_voice_map = NoMap
    /\ alloc_runs = 0

(***************************************************************************)
(* Transcript inputs.                                                      *)
(***************************************************************************)
Word(i) == <<"w" \o ToString(i)>>

\* The segments with pauses gaps[1..n] before them and lengths durs[1..n].
RECURSIVE BuildSegments(_, _, _)
BuildSegments(gaps, durs, n) ==
    IF n = 0 THEN <<>>
    ELSE LET before == BuildSegments(gaps, durs, n - 1)
             st == IF n = 1 THEN gaps[1] ELSE before[n - 1].end + gaps[n]
         IN  Append(before, [start |-> st, end |-> st + durs[n],
                             text |-> Word(n), speaker |-> NoSpeaker])

IsTranscript(segs) ==
    \E n \in 0..MaxSegs :
        \E gaps \in [1..n -> GapChoices], durs \in [1..n -> DurationChoices] :
            /\ n >= 1 => gaps[1] = 0
            /\ segs = BuildSegments(gaps, durs, n)

\* The upstream invariant of a transcript: start < end, ordered by start,
\* no overlap.
WellFormed(segs) ==
    /\ \A i \in 1..Len(segs) : segs[i].start < segs[i].end
    /\ \A i \in 1..(Len(segs) - 1) : segs[i].end <= segs[i + 1].start

(***************************************************************************)
(* speaker_diarization.py                                                  *)
(***************************************************************************)
RECURSIVE Digits(_)
Digits(n) == IF n < 10 THEN <<n>> ELSE Append(Digits(n \div 10), n % 10)

\* f"SPEAKER_{speaker_id:02d}"
SpeakerName(speaker_id) ==
    <<"SPEAKER_">> \o (IF speaker_id < 10 THEN <<0>> ELSE <<>>) \o Digits(speaker_id)

new_speaker_at_threshold(pause) == pause >= silence_threshold

new_speaker(pause) == pause > silence_threshold

RECURSIVE detect_loop(_, _, _)
detect_loop(segs, i, speaker_id) ==
    IF i > Len(segs) THEN <<>>
    ELSE LET sid == IF i > 1 /\ new_speaker(segs[i].start - segs[i - 1].end)
                    THEN speaker_id + 1
                    ELSE speaker_id
         IN  <<[segs[i] EXCEPT !.speaker = SpeakerName(sid)]>>
                 \o detect_loop(segs, i + 1, sid)

detect_speaker_changes(segs) == detect_loop(segs, 1, 0)

new_turn(seg) ==
    [speaker |-> seg.speaker, start |-> seg.start, end |-> seg.end,
     text |-> seg.text]

extend_turn_wrong_field(turn, seg) ==
    [turn EXCEPT !.start = seg.start, !.text = turn.text \o <<" ">> \o seg.text]

extend_turn(turn, seg) ==
    [turn EXCEPT !.end = seg.end, !.text = turn.text \o <<" ">> \o seg.text]

same_turn_gap_only(turn, seg) == seg.start - turn.end < merge_gap

same_turn(turn, seg) ==
    /\ seg.speaker = turn.speaker
    /\ seg.start - turn.end < merge_gap

RECURSIVE merge_loop(_, _, _)
merge_loop(segs, i, merged) ==
    IF i > Len(segs) THEN merged
    ELSE IF merged # <<>> /\ same_turn(merged[Len(merged)], segs[i])
    THEN merge_loop(segs, i + 1,
             [merged EXCEPT ![Len(merged)] = extend_turn(merged[Len(merged)], segs[i])])
    ELSE merge_loop(segs, i + 1, Append(merged, new_turn(segs[i])))

merge_consecutive_speaker_segments(segs) == merge_loop(segs, 1, <<>>)

(***************************************************************************)
(* The diarization run on its own.                                         *)
(***************************************************************************)
SegInit ==
    /\ pc = "detect"
    /\ IsTranscript(segments)
    /\ speaker_segments = <<>>
    /\ clip = NoClip
    /\ NoVoiceState
    /\ NoPipeState
    /\ NoJobState

DetectSpeakerChanges ==
    /\ pc = "detect"
    /\ segments' = detect_speaker_changes(segments)
    /\ pc' = "merge"
    /\ UNCHANGED <<job_vars, speaker_segments, dur_vars, voice_vars, pipe_vars>>

MergeConsecutive ==
    /\ pc = "merge"
    /\ speaker_segments' = merge_consecutive_speaker_segments(segments)
    /\ pc' = "diarized"
    /\ UNCHANGED <<job_vars, segments, dur_vars, voice_vars, pipe_vars>>

SegNext == DetectSpeakerChanges \/ MergeConsecutive

SpecSeg == SegInit /\ [][SegNext]_vars

(***************************************************************************)
(* Duration adjustment (adjust_audio_duration).  A speed factor is the     *)
(* exact ratio num/den; atempo divides the duration by the factor.         *)
(***************************************************************************)
speed_factor_inverted(current_duration, target_duration) ==
    [num |-> target_duration, den |-> current_duration]

speed_factor(current_duration, target_duration) ==
    [num |-> current_duration, den |-> target_duration]

clamp_speed_none(f) == f

clamp_speed_wide(f) ==
    IF f.num > 4 * f.den THEN [num |-> 4, den |-> 1]
    ELSE IF 4 * f.num < f.den THEN [num |-> 1, den |-> 4]
    ELSE f

\* Speed kept within 0.5x - 2.0x.
clamp_speed(f) ==
    IF f.num > 2 * f.den THEN [num |-> 2, den |-> 1]
    ELSE IF 2 * f.num < f.den THEN [num |-> 1, den |-> 2]
    ELSE f

\* ffmpeg -af "atempo={speed_factor}": the output lasts duration / factor.
atempo(duration, f) == (duration * f.den) \div f.num

adjust_audio_duration(current_duration, target_duration) ==
    LET f == clamp_speed(speed_factor(current_duration, target_duration))
    IN  [speed_factor |-> f,
         duration |-> atempo(current_duration, f),
         error |-> FALSE]

ClipDurations == {k * 500 : k \in 1..MaxDurSteps}

DurInit ==
    /\ pc = "adjust"
    /\ segments = <<>>
    /\ speaker_segments = <<>>
    /\ NoVoiceState
    /\ NoPipeState
    /\ NoJobState
    /\ \E raw \in ClipDurations, target \in ClipDurations, st \in {0, 2500} :
           clip = [current_duration |-> raw, start |-> st, end |-> st + target,
                   adjusted |-> [speed_factor |-> [num |-> 1, den |-> 1],
                                 duration |-> 0, error |-> FALSE]]

\* original_duration = segment['end'] - segment['start']
\* adjust_audio_duration(seg_audio, original_duration, adjusted)
AdjustAudioDuration ==
    /\ pc = "adjust"
    /\ clip' = [clip EXCEPT !.adjusted =
                    adjust_audio_duration(clip.current_duration, clip.end - clip.start)]
    /\ pc' = "adjusted"
    /\ UNCHANGED <<job_vars, seg_vars, voice_vars, pipe_vars>>

DurNext == AdjustAudioDuration

SpecDur == DurInit /\ [][DurNext]_vars

(***************************************************************************)
(* Voice assignment (speaker_voices.py).                                   *)
(***************************************************************************)
\* filtered = [v for v in all_voices
\*             if language in v['languageName'].lower()
\*             and (gender == 'neutral' or gender in v['gender'].lower())]
voice_matches(v, language, gender) ==
    /\ Contains(language, Lower(v.languageName))
    /\ (gender = neutral \/ Contains(gender, Lower(v.gender)))

get_murf_voices_by_language_gender(voices, language, gender) ==
    SelectSeq(voices, LAMBDA v : voice_matches(v, language, gender))

always_fetch(cache, fetched) == fetched

\* Cache: store for reuse during the session.
cached_voices(cache, fetched) ==
    IF cache.cached THEN cache.voices ELSE fetched

pool_for_no_fallback(voices, language, gender) ==
    get_murf_voices_by_language_gender(voices, language, gender)

\* The pool a gender draws from: its own, or the neutral one when its own
\* is empty.
pool_for(voices, language, gender) ==
    LET own == get_murf_voices_by_language_gender(voices, language, gender)
    IN  IF own # <<>> THEN own
        ELSE get_murf_voices_by_language_gender(voices, language, neutral)

advance_all(cursor, gender) == [g \in DOMAIN cursor |-> cursor[g] + 1]

advance(cursor, gender) == [cursor EXCEPT ![gender] = @ + 1]

RECURSIVE assign_loop(_, _, _, _, _)
assign_loop(genders, i, cursor, assigned, pools) ==
    IF i > Len(genders) THEN [map |-> assigned, error |-> FALSE]
    ELSE LET gender == genders[i].gender
             pool == IF gender = male THEN pools.male ELSE pools.female
         IN  IF pool = <<>> THEN [map |-> <<>>, error |-> TRUE]
             ELSE assign_loop(genders, i + 1, advance(cursor, gender),
                      Append(assigned,
                             [speaker |-> genders[i].speaker,
                              voice |-> pool[(cursor[gender] % Len(pool)) + 1]]),
                      pools)

assign_voices_first_speaker_only(genders, voices, language) ==
    assign_loop(SubSeq(genders, 1, 1), 1, [g \in {male, female} |-> 0], <<>>,
                [male |-> pool_for(voices, language, male),
                 female |-> pool_for(voices, language, female)])

assign_voices_to_speakers(genders, voices, language) ==
    assign_loop(genders, 1, [g \in {male, female} |-> 0], <<>>,
                [male |-> pool_for(voices, language, male),
                 female |-> pool_for(voices, language, female)])

AllocInit ==
    /\ pc = "assign"
    /\ segments = <<>>
    /\ speaker_segments = <<>>
    /\ clip = NoClip
    /\ \E keep \in [1..Len(Catalogue) -> BOOLEAN] :
           all_voices = Listed(keep, Len(Catalogue))
    /\ voice_cache = NotCached
    /\ target_lang = hindi
    /\ \E n \in 0..MaxSpeakers :
           \E g \in [1..n -> {male, female}] :
               speaker_genders =
                   [i \in 1..n |-> [speaker |-> SpeakerName(i - 1), gender |-> g[i]]]
    /\ speaker_voice_map = NoMap
    /\ prev_voice_map = NoMap
    /\ alloc_runs = 0
    /\ NoPipeState
    /\ NoJobState

\* speaker_voice_map = assign_voices_to_speakers(speaker_genders)
AssignVoices ==
    /\ pc = "assign"
    /\ alloc_runs < MaxAllocRuns
    /\ LET voices == cached_voices(voice_cache, all_voices)
       IN  /\ voice_cache' = [cached |-> TRUE, voices |-> voices]
           /\ speaker_voice_map' =
                  assign_voices_to_speakers(speaker_genders, voices, target_lang)
    /\ prev_voice_map' = speaker_voice_map
    /\ alloc_runs' = alloc_runs + 1
    /\ UNCHANGED <<job_vars, pc, seg_vars, dur_vars, pipe_vars, all_voices, target_lang, speaker_genders>>

\* The provider lists its voices in another order from now on.
ProviderReorders ==
    /\ pc = "assign"
    /\ alloc_runs >= 1
    /\ Reverse(all_voices) # all_voices
    /\ all_voices' = Reverse(all_voices)
    /\ UNCHANGED <<job_vars, pc, seg_vars, dur_vars, pipe_vars, voice_cache, target_lang, speaker_genders,
                   speaker_voice_map, prev_voice_map, alloc_runs>>

AllocNext == AssignVoices \/ ProviderReorders

SpecAlloc == AllocInit /\ [][AllocNext]_vars

(***************************************************************************)
(* Properties of the voice assignment.                                     *)
(***************************************************************************)
SpeakersOf(genders, gender) == {i \in 1..Len(genders) : genders[i].gender = gender}

\* How many speakers of the gender of speaker i come before speaker i.
Rank(genders, i) ==
    Cardinality({j \in 1..(i - 1) : genders[j].gender = genders[i].gender})

PoolOf(pools, gender) == IF gender = male THEN pools.male ELSE pools.female

UsedPools ==
    [male |-> pool_for(voice_cache.voices, target_lang, male),
     female |-> pool_for(voice_cache.voices, target_lang, female)]

OwnPools ==
    [male |-> get_murf_voices_by_language_gender(voice_cache.voices, target_lang, male),
     female |-> get_murf_voices_by_language_gender(voice_cache.voices, target_lang, female)]

Assigned == alloc_runs >= 1 /\ ~speaker_voice_map.error

\* C3: two distinct speakers never get the same voice as long as, for each
\* gender, the speakers of that gender are no more than the voices of the
\* pool used for that gender.  Stated for the assignments in which each
\* gender has a pool of its own, so that none draws from the neutral pool.
C3_DistinctVoices ==
    (/\ Assigned
     /\ LET pools == OwnPools
        IN  \A g \in {male, female} :
                /\ PoolOf(pools, g) # <<>>
                /\ Cardinality(SpeakersOf(speaker_genders, g)) <= Len(PoolOf(pools, g))) =>
        \A i, j \in 1..Len(speaker_voice_map.map) :
            i # j => speaker_voice_map.map[i].voice # speaker_voice_map.map[j].voice

\* C4: the i-th speaker of a gender, in first-seen order, gets
\* pool[gender][i mod |pool[gender]|]; with 2 male voices and the male
\* speakers S0, S2, S4, S6, S8 the voices are 0, 1, 0, 1, 0; more speakers
\* than voices is not an error (only a gender without any voice is).
C4_RoundRobin ==
    alloc_runs >= 1 =>
        LET m == speaker_voice_map.map
            pools == UsedPools
            pool == pools.male
        IN  /\ speaker_voice_map.error <=>
                   \E i \in 1..Len(speaker_genders) :
                       PoolOf(pools, speaker_genders[i].gender) = <<>>
            /\ ~speaker_voice_map.error =>
                   /\ Len(m) = Len(speaker_genders)
                   /\ \A i \in 1..Len(m) :
                          LET p == PoolOf(pools, speaker_genders[i].gender)
                          IN  /\ m[i].speaker = speaker_genders[i].speaker
                              /\ m[i].voice = p[(Rank(speaker_genders, i) % Len(p)) + 1]
            /\ (SpeakersOf(speaker_genders, male) = {1, 3, 5, 7, 9} /\ Len(pool) = 2) =>
                   /\ ~speaker_voice_map.error
                   /\ <<m[1].voice, m[3].voice, m[5].voice, m[7].voice, m[9].voice>>
                          = <<pool[1], pool[2], pool[1], pool[2], pool[1]>>

\* Male speakers S0, S2, S4, S6, S8 assigned from a pool of two voices.
C4_Witness ==
    /\ Assigned
    /\ SpeakersOf(speaker_genders, male) = {1, 3, 5, 7, 9}
    /\ Len(UsedPools.male) = 2
    /\ speaker_voice_map.map[1].voice # speaker_voice_map.map[3].voice
    /\ speaker_voice_map.map[1].voice = speaker_voice_map.map[9].voice

Abs(x) == IF x < 0 THEN -x ELSE x

WithinTolerance(a, b) == Abs(a - b) <= 50

\* rawDuration / targetDuration lies in [0.5, 2.0].
RatioInRange(raw, target) == 2 * raw >= target /\ raw <= 2 * target

FactorIs(f, n, d) == f.num * d = n * f.den

\* C6: when rawDuration / targetDuration lies in [0.5, 2.0], bounds
\* included, the adjusted clip lasts within 50 ms of targetDuration.
C6_InRangeWithinTolerance ==
    (pc = "adjusted" /\ RatioInRange(clip.current_duration, clip.end - clip.start)) =>
        /\ ~clip.adjusted.error
        /\ WithinTolerance(clip.adjusted.duration, clip.end - clip.start)

\* A clip that had to be sped up by a factor strictly between 1 and 2.
C6_Witness ==
    /\ pc = "adjusted"
    /\ clip.current_duration > clip.end - clip.start
    /\ clip.current_duration < 2 * (clip.end - clip.start)
    /\ clip.adjusted.duration = clip.end - clip.start

female_keywords == {"she", "her", "mrs", "ms", "lady", "woman", "mother"}

male_keywords == {"he", "him", "mr", "sir", "man", "father", "brother"}

\* The words the texts of the model are written with.  "He" and "Mrs" are
\* capitalised; "here" contains the keywords "he" and "her" without being
\* one.
Vocabulary == {"He", "she", "Mrs", "here"}

\* word.lower() on the words of the model.
lower_word(word) ==
    CASE word = "He" -> "he"
      [] word = "Mrs" -> "mrs"
      [] OTHER -> word

keyword_score_case_sensitive(text, keywords) ==
    Cardinality({i \in 1..Len(text) : text[i] \in keywords})

\* Count keyword occurrences: whole words, whatever their case ("He said
\* she was here yesterday" scores 1 for "he" and 1 for "she").
keyword_score(text, keywords) ==
    Cardinality({i \in 1..Len(text) : lower_word(text[i]) \in keywords})

\* The number that the digits after "SPEAKER_" spell.
RECURSIVE DigitsValue(_)
DigitsValue(ds) ==
    IF ds = <<>> THEN 0
    ELSE 10 * DigitsValue(SubSeq(ds, 1, Len(ds) - 1)) + ds[Len(ds)]

SpeakerNumber(speaker) == DigitsValue(Tail(speaker))

\* If tied, alternate by speaker number.
detect_gender(speaker, text) ==
    LET female_score == keyword_score(text, female_keywords)
        male_score == keyword_score(text, male_keywords)
    IN  IF female_score > male_score THEN female
        ELSE IF male_score > female_score THEN male
        ELSE IF SpeakerNumber(speaker) % 2 = 0 THEN male
        ELSE female

\* The speakers in first-seen order, each with the text of all its turns.
RECURSIVE speaker_stats(_, _, _)
speaker_stats(turns, i, stats) ==
    IF i > Len(turns) THEN stats
    ELSE IF \E k \in 1..Len(stats) : stats[k].speaker = turns[i].speaker
    THEN speaker_stats(turns, i + 1,
             [k \in 1..Len(stats) |->
                 IF stats[k].speaker = turns[i].speaker
                 THEN [stats[k] EXCEPT !.text = @ \o <<" ">> \o turns[i].text]
                 ELSE stats[k]])
    ELSE speaker_stats(turns, i + 1,
             Append(stats, [speaker |-> turns[i].speaker, text |-> turns[i].text]))

detect_speaker_genders(stats) ==
    [k \in 1..Len(stats) |->
        [speaker |-> stats[k].speaker,
         gender |-> detect_gender(stats[k].speaker, stats[k].text)]]

(***************************************************************************)
(* The gender detection run on its own: speaker turns with texts over the  *)
(* vocabulary, one turn of SPEAKER_00 or one turn each of SPEAKER_00 and   *)
(* SPEAKER_01, labelled as the diarization labels them.                    *)
(***************************************************************************)
Texts == UNION {[1..k -> Vocabulary] : k \in 0..MaxTextLen}

GenderInit ==
    /\ pc = "detect_genders"
    /\ segments = <<>>
    /\ \E n \in {1, 2} :
           \E texts \in [1..n -> Texts] :
               speaker_segments =
                   [i \in 1..n |->
                       [speaker |-> SpeakerName(i - 1),
                        start |-> (i - 1) * 2000,
                        end |-> (i - 1) * 2000 + 1000,
                        text |-> texts[i]]]
    /\ clip = NoClip
    /\ NoVoiceState
    /\ NoPipeState
    /\ NoJobState

\* speaker_genders = detect_speaker_genders(speaker_stats); running it again
\* on the same turns is allowed.
DetectSpeakerGenders ==
    /\ pc \in {"detect_genders", "genders_detected"}
    /\ speaker_genders' = detect_speaker_genders(speaker_stats(speaker_segments, 1, <<>>))
    /\ pc' = "genders_detected"
    /\ UNCHANGED <<job_vars, seg_vars, dur_vars, pipe_vars, all_voices, voice_cache, target_lang,
                   speaker_voice_map, prev_voice_map, alloc_runs>>

GenderNext == DetectSpeakerGenders

SpecGender == GenderInit /\ [][GenderNext]_vars

(***************************************************************************)
(* Mixing (merge_audio_segments): the background at volume 0.3, every      *)
(* segment delayed by its start, amix with duration=longest.               *)
(***************************************************************************)
RECURSIVE LatestEnd(_, _)
LatestEnd(placed, n) ==
    IF n = 0 THEN 0
    ELSE LET rest == LatestEnd(placed, n - 1)
         IN  IF placed[n].to > rest THEN placed[n].to ELSE rest

adelay(info) ==
    [from |-> info.start, to |-> info.start + info.duration, speaker |-> info.speaker]

amix_duration(background_duration, placed) ==
    LET latest == LatestEnd(placed, Len(placed))
    IN  IF latest > background_duration THEN latest ELSE background_duration

\* A mix in which a clip is cut where the next clip starts.
merge_audio_segments_truncating(infos, track) ==
    LET placed == [i \in 1..Len(infos) |->
                      [from |-> infos[i].start,
                       to |-> IF i < Len(infos)
                                 /\ infos[i].start + infos[i].duration > infos[i + 1].start
                              THEN infos[i + 1].start
                              ELSE infos[i].start + infos[i].duration,
                       speaker |-> infos[i].speaker]]
    IN  [mixed |-> TRUE,
         background_volume |-> 30,
         placed |-> placed,
         duration |-> amix_duration(track.duration, placed)]

merge_audio_segments(infos, track) ==
    LET placed == [i \in 1..Len(infos) |-> adelay(infos[i])]
    IN  [mixed |-> TRUE,
         background_volume |-> 30,
         placed |-> placed,
         duration |-> amix_duration(track.duration, placed)]

(***************************************************************************)
(* The mixing run on its own: one to MaxMixTurns turns of one speaker      *)
(* each, 0.9 s or 1.2 s apart, every clip generated at some length and     *)
(* adjusted to its turn's window.                                          *)
(***************************************************************************)
RECURSIVE BuildTurns(_, _, _)
BuildTurns(gaps, windows, n) ==
    IF n = 0 THEN <<>>
    ELSE LET before == BuildTurns(gaps, windows, n - 1)
             st == IF n = 1 THEN 0 ELSE before[n - 1].end + gaps[n]
         IN  Append(before, [speaker |-> SpeakerName(n - 1), start |-> st,
                             end |-> st + windows[n], text |-> Word(n)])

MixInit ==
    /\ pc = "mix"
    /\ segments = <<>>
    /\ clip = NoClip
    /\ NoVoiceState
    /\ NoJobState
    /\ mixed = NoMix
    /\ \E n \in 1..MaxMixTurns :
           \E gaps \in [1..n -> {900, 1200}], windows \in [1..n -> {500, 1000}],
              raws \in [1..n -> {500, 1500, 3000, 5000}] :
               /\ speaker_segments = BuildTurns(gaps, windows, n)
               /\ segments_info =
                      [i \in 1..n |->
                          LET segment == speaker_segments[i]
                          IN  [speaker |-> segment.speaker,
                               voiceId |-> Catalogue[1].voiceId,
                               duration |->
                                   adjust_audio_duration(
                                       raws[i], segment.end - segment.start).duration,
                               start |-> segment.start,
                               end |-> segment.end,
                               degraded |-> FALSE,
                               retried |-> FALSE]]
               /\ video_duration = speaker_segments[n].end + 500
    /\ background = [extracted |-> TRUE, duration |-> video_duration]

\* merge_audio_segments(segments_info, background_path, mixed_audio)
MixSegments ==
    /\ pc = "mix"
    /\ mixed' = merge_audio_segments(segments_info, background)
    /\ pc' = "mixed"
    /\ UNCHANGED <<job_vars, seg_vars, dur_vars, voice_vars, video_duration, background,
                   segments_info>>

MixNext == MixSegments

SpecMix == MixInit /\ [][MixNext]_vars

(***************************************************************************)
(* process_video_advanced: the pipeline of one job.                        *)
(***************************************************************************)
voice_first(assignment, speaker) == assignment.map[1].voice

\* voice = speaker_voice_map[speaker_id]
voice_lookup(assignment, speaker) ==
    LET k == CHOOSE k \in 1..Len(assignment.map) : assignment.map[k].speaker = speaker
    IN  assignment.map[k].voice

\* The steps of the pipeline in the order it runs them.
Steps == <<"extract", "transcribe", "diarize", "assign_voices", "generate", "mix",
           "merge_video">>

StepSet == {Steps[i] : i \in 1..Len(Steps)}

\* The stage the job reports while a step runs.
stage_name(step) ==
    CASE step = "extract" -> "extracting_audio"
      [] step = "transcribe" -> "transcribing"
      [] step = "diarize" -> "diarizing"
      [] step = "assign_voices" -> "allocating_voices"
      [] step = "generate" -> "rendering_segments"
      [] step = "mix" -> "mixing"
      [] step = "merge_video" -> "merging_video"

stage_percent_diarize_low(step) ==
    CASE step = "extract" -> 10
      [] step = "transcribe" -> 25
      [] step = "diarize" -> 20
      [] step = "assign_voices" -> 35
      [] step = "generate" -> 40
      [] step = "mix" -> 85
      [] step = "merge_video" -> 95

\* The progress the job reports when a step starts:
\* [10%] extract audio, [25%] transcribe, [30%] detect speakers, [35%] assign
\* voices, [40-80%] translate and generate voices, [85%] mix, [95%] merge.
stage_percent(step) ==
    CASE step = "extract" -> 10
      [] step = "transcribe" -> 25
      [] step = "diarize" -> 30
      [] step = "assign_voices" -> 35
      [] step = "generate" -> 40
      [] step = "mix" -> 85
      [] step = "merge_video" -> 95

\* [40-80%]: the progress after `done` of `total` segments are generated.
segment_percent(done, total) == 40 + (40 * done) \div total

next_step_skips_mix(step) ==
    LET i == CHOOSE i \in 1..Len(Steps) : Steps[i] = step
    IN  IF i = Len(Steps) THEN "complete"
        ELSE IF step = "generate" THEN "merge_video"
        ELSE Steps[i + 1]

next_step(step) ==
    LET i == CHOOSE i \in 1..Len(Steps) : Steps[i] = step
    IN  IF i = Len(Steps) THEN "complete" ELSE Steps[i + 1]

\* What the logs give as the cause when a step fails.
failure_cause(step) ==
    CASE step = "extract" -> "Failed to extract audio"
      [] step = "transcribe" -> "Failed to transcribe audio"
      [] step = "assign_voices" -> "Failed to fetch voices"
      [] step = "generate" -> "Failed to adjust audio duration"
      [] step = "mix" -> "Failed to mix audio"
      [] step = "merge_video" -> "Failed to merge audio and video"

\* The job fails: the status keeps the stage that failed and the cause.
job_failed(job, cause) ==
    [stage |-> "failed", percent |-> job.percent, attempts |-> job.attempts,
     error |-> [stage |-> job.stage, cause |-> cause]]

data_error_empty_only(segs) == segs = <<>>

\* An empty transcript or segments that are not ordered by start, or do not
\* have start < end, are a data error.
data_error(segs) ==
    \/ segs = <<>>
    \/ \E i \in 1..Len(segs) : segs[i].start >= segs[i].end
    \/ \E i \in 1..(Len(segs) - 1) : segs[i + 1].start < segs[i].start

no_retry(first_ok, second_ok) == [retried |-> FALSE, ok |-> first_ok]

\* A provider request that fails is tried once more.
with_retry(first_ok, second_ok) ==
    [retried |-> ~first_ok, ok |-> first_ok \/ second_ok]

\* Translation, then synthesis, of one turn; when either fails twice the
\* turn is degraded to silence.
render_segment(translate_ok, translate_again_ok, synth_ok, synth_again_ok) ==
    LET translation == with_retry(translate_ok, translate_again_ok)
        synthesis == with_retry(synth_ok, synth_again_ok)
    IN  IF ~translation.ok
        THEN [degraded |-> TRUE, retried |-> translation.retried,
              calls |-> {"translation"}]
        ELSE [degraded |-> ~synthesis.ok,
              retried |-> translation.retried \/ synthesis.retried,
              calls |-> {"translation", "synthesis"}]

save_speakers_first_only(genders, assignment) ==
    [written |-> TRUE,
     speaker_genders |-> SubSeq(genders, 1, 1),
     speaker_voices |->
         [k \in 1..(IF assignment.map = <<>> THEN 0 ELSE 1) |->
             [speaker |-> assignment.map[k].speaker,
              name |-> assignment.map[k].voice.name,
              voiceId |-> assignment.map[k].voice.voiceId,
              gender |-> assignment.map[k].voice.gender]]]

\* speakers.json: speaker_genders and speaker_voices, keyed by speaker.
save_speakers(genders, assignment) ==
    [written |-> TRUE,
     speaker_genders |-> genders,
     speaker_voices |->
         [k \in 1..Len(assignment.map) |->
             [speaker |-> assignment.map[k].speaker,
              name |-> assignment.map[k].voice.name,
              voiceId |-> assignment.map[k].voice.voiceId,
              gender |-> assignment.map[k].voice.gender]]]

\* GET /status/{job_id}
job_status(job) ==
    [status |-> IF job.stage = "complete" THEN "done"
                ELSE IF job.stage = "failed" THEN "error"
                ELSE "processing",
     error |-> job.error]

\* GET /api/v2/status/{job_id}
job_status_v2(job) ==
    [status |-> IF job.stage = "complete" THEN "success"
                ELSE IF job.stage = "failed" THEN "failure"
                ELSE "processing",
     error |-> job.error]

\* The answer the client gets from the status endpoint it polls.
status_of(client, job) ==
    IF client = "UploadV2" THEN job_status_v2(job) ELSE job_status(job)

dub_btn_never_disabled(page) == FALSE

\* <motion.button className="dub-btn" onClick={handleDub} disabled={loading}>
dub_btn_disabled(page) == page.loading

\* handleDub up to the POST: UploadV2 also clears dubbedVideo, Upload does
\* not.
handleDub(page) ==
    IF page.client = "UploadV2"
    THEN [page EXCEPT !.loading = TRUE, !.progress = <<"Uploading video...">>,
                      !.dubbedVideo = "none"]
    ELSE [page EXCEPT !.loading = TRUE, !.progress = <<"Uploading...">>]

\* The video the page still holds from now on belongs to an earlier job.
earlier_result(page) ==
    IF page.dubbedVideo = "result"
    THEN [page EXCEPT !.dubbedVideo = "result of an earlier job"]
    ELSE page

\* The POST answered with a job id: the first pollJobStatus is called.
dub_accepted(page) ==
    [page EXCEPT !.progress = IF page.client = "UploadV2"
                              THEN <<"Processing started...">>
                              ELSE <<"Processing...">>]

\* catch of handleDub
dub_failed(page) ==
    [page EXCEPT !.loading = FALSE,
                 !.progress = IF page.client = "UploadV2"
                              THEN <<"Upload failed: ">>
                              ELSE <<"Dubbing failed!">>]

status_success(page, data) ==
    data.status = (IF page.client = "UploadV2" THEN "success" ELSE "done")

status_failure(page, data) ==
    data.status = (IF page.client = "UploadV2" THEN "failure" ELSE "error")

\* pollJobStatus from the answer of the status request to the next await
\* or the end.
on_status(page, data) ==
    IF status_failure(page, data)
    THEN [page EXCEPT !.loading = FALSE,
                      !.progress = <<"Error: ", data.error.stage, data.error.cause>>]
    ELSE IF status_success(page, data) /\ page.client # "UploadV2"
    THEN [page EXCEPT !.progress = <<"Fetching result...">>]
    ELSE [page EXCEPT !.progress = <<"Status: ", data.status>>]

\* What pollJobStatus does next: request the result, stop, or set the timer
\* of the next poll.
after_status(page, data) ==
    IF status_success(page, data) THEN "result"
    ELSE IF status_failure(page, data) THEN "stop"
    ELSE "timer"

\* The result video has arrived: setDubbedVideo(url); Upload stops loading,
\* UploadV2 first asks for the transcript.
on_result(page) ==
    IF page.client = "UploadV2"
    THEN [page EXCEPT !.dubbedVideo = "result"]
    ELSE [page EXCEPT !.dubbedVideo = "result", !.loading = FALSE]

\* UploadV2: the transcript request has ended, with the transcript or not.
on_transcript(page) ==
    [page EXCEPT !.loading = FALSE, !.progress = <<"Dubbing complete!">>]

\* catch of pollJobStatus
on_poll_error(page) ==
    [page EXCEPT !.loading = FALSE,
                 !.progress = IF page.client = "UploadV2"
                              THEN <<"Error checking status!">>
                              ELSE <<"Error polling job!">>]

pollJobStatus_fetch_always(page, data) ==
    IF data.status \in {"done", "error"}
    THEN [page EXCEPT !.loading = FALSE, !.progress = <<"Fetching result...">>,
                      !.dubbedVideo = "result"]
    ELSE [page EXCEPT !.progress = <<"Status: ", data.status>>]

\* pollJobStatus of the upload page, from the status request to its end:
\* fetch the result when the job is done, show the error when it failed,
\* poll again otherwise.
pollJobStatus(page, data) ==
    IF data.status = "done"
    THEN on_result(on_status(page, data))
    ELSE on_status(page, data)

\* The job as the upload page's handleDub leaves it: queued, the page
\* polling its status.  handleDub does not reset dubbedVideo, so the page
\* may still hold the result of an earlier job.
PipeInit ==
    /\ pc = "queued"
    /\ segments = <<>>
    /\ speaker_segments = <<>>
    /\ clip = NoClip
    /\ \E keep \in [1..Len(Catalogue) -> BOOLEAN] :
           /\ Cardinality({i \in 1..Len(Catalogue) : keep[i]}) \in {0, 1, Len(Catalogue)}
           /\ all_voices \in {Listed(keep, Len(Catalogue)),
                              Reverse(Listed(keep, Len(Catalogue)))}
    /\ voice_cache = NotCached
    /\ target_lang = hindi
    /\ speaker_genders = <<>>
    /\ speaker_voice_map = NoMap
    /\ prev_voice_map = NoMap
    /\ alloc_runs = 0
    /\ video_duration \in {1700, 3400, 5100}
    /\ background = NoTrack
    /\ segments_info = <<>>
    /\ mixed = NoMix
    /\ job_state = [stage |-> "queued", percent |-> 0, attempts |-> 0, error |-> NoError]
    /\ running = FALSE
    /\ provider_calls = {}
    /\ cancel_requested = FALSE
    /\ speakers_json = NoFile
    /\ \E earlier \in {"none", "result of an earlier job"} :
           ui = [client |-> "Upload", loading |-> TRUE, progress |-> <<"Processing...">>,
                 dubbedVideo |-> earlier]
    /\ pending = [NoPending EXCEPT !.poll = 1]

\* [5%] Initialize
Initialize ==
    /\ pc = "queued"
    /\ ~cancel_requested
    /\ job_state' = [job_state EXCEPT !.stage = "initializing", !.percent = 5]
    /\ pc' = "extract"
    /\ UNCHANGED <<seg_vars, dur_vars, voice_vars, pipe_vars, running, provider_calls,
                   cancel_requested, speakers_json, ui,
                   pending>>

\* Between two steps: unless a cancellation has been asked for, the next
\* step starts and the job reports its stage and progress.
BeginStage ==
    /\ pc \in StepSet
    /\ ~running
    /\ ~cancel_requested
    /\ running' = TRUE
    /\ job_state' = [job_state EXCEPT !.stage = stage_name(pc),
                                      !.percent = stage_percent(pc),
                                      !.attempts = 0]
    /\ UNCHANGED <<pc, seg_vars, dur_vars, voice_vars, pipe_vars, provider_calls,
                   cancel_requested, speakers_json, ui,
                   pending>>

\* extract_audio_with_background(video, speech_path, background_path)
ExtractAudio ==
    /\ pc = "extract"
    /\ running
    /\ background' = [extracted |-> TRUE, duration |-> video_duration]
    /\ pc' = next_step(pc)
    /\ running' = FALSE
    /\ UNCHANGED <<seg_vars, dur_vars, voice_vars, video_duration, segments_info, mixed,
                   job_state, provider_calls, cancel_requested, speakers_json, ui,
                   pending>>

\* How many times the provider was asked.
attempts_made(call) == IF call.retried THEN 2 ELSE 1

\* transcript_data = transcribe_with_timestamps(speech_path): segments with
\* pauses of 0.3 s or 1.2 s before them, no segment at all, or two segments
\* of which the second starts before the first.  When the request fails the
\* job fails: "Calling OpenAI Whisper API... Transcription error: APIError:
\* Rate limit exceeded", then "[job_id] ERROR - Processing failed: Failed to
\* transcribe audio".
Transcribe ==
    /\ pc = "transcribe"
    /\ running
    /\ \E ok \in BOOLEAN :
           IF ok
           THEN /\ \/ \E n \in 1..MaxPipeSegs :
                         \E gaps \in [1..n -> {300, 1200}] :
                             LET segs == BuildSegments(gaps, [i \in 1..n |-> 500], n)
                             IN  /\ segs[n].end <= video_duration
                                 /\ segments' = segs
                   \/ segments' = <<>>
                   \/ segments' = BuildSegments(<<300, -700>>, <<500, 500>>, 2)
                /\ job_state' = [job_state EXCEPT !.attempts = 1]
                /\ pc' = next_step(pc)
           ELSE /\ pc' = "failed"
                /\ job_state' = job_failed([job_state EXCEPT !.attempts = 1],
                                           failure_cause(pc))
                /\ UNCHANGED segments
    /\ provider_calls' = provider_calls \cup {"transcription"}
    /\ running' = FALSE
    /\ UNCHANGED <<speaker_segments, dur_vars, voice_vars, pipe_vars,
                   cancel_requested, speakers_json, ui,
                   pending>>

\* speaker_segments, speaker_genders = process_speaker_diarization(transcript_data)
Diarize ==
    /\ pc = "diarize"
    /\ running
    /\ IF data_error(segments)
       THEN /\ pc' = "failed"
            /\ job_state' = job_failed(job_state, "No speech content")
            /\ UNCHANGED <<seg_vars, speaker_genders>>
       ELSE LET labelled == detect_speaker_changes(segments)
                turns == merge_consecutive_speaker_segments(labelled)
            IN  /\ segments' = labelled
                /\ speaker_segments' = turns
                /\ speaker_genders' = detect_speaker_genders(speaker_stats(turns, 1, <<>>))
                /\ pc' = next_step(pc)
                /\ UNCHANGED job_state
    /\ running' = FALSE
    /\ UNCHANGED <<dur_vars, pipe_vars, all_voices, voice_cache, target_lang,
                   speaker_voice_map, prev_voice_map, alloc_runs, provider_calls,
                   cancel_requested, speakers_json, ui,
                   pending>>

\* speaker_voice_map = assign_voices_to_speakers(speaker_genders); the
\* speakers and their voices are written to speakers.json.  The voices are
\* fetched from the provider unless they are cached; a fetch that fails is
\* made once more, and when that fails too the job fails.
PipeAssignVoices ==
    /\ pc = "assign_voices"
    /\ running
    /\ \E first_ok, second_ok \in BOOLEAN :
           LET call == with_retry(first_ok, second_ok)
               voices == cached_voices(voice_cache, all_voices)
               assignment == assign_voices_to_speakers(speaker_genders, voices, target_lang)
           IN  IF ~voice_cache.cached /\ ~call.ok
               THEN /\ pc' = "failed"
                    /\ job_state' =
                           job_failed([job_state EXCEPT !.attempts = attempts_made(call)],
                                      failure_cause(pc))
                    /\ UNCHANGED <<voice_cache, speaker_voice_map, prev_voice_map,
                                   alloc_runs, speakers_json>>
               ELSE /\ voice_cache' = [cached |-> TRUE, voices |-> voices]
                    /\ speaker_voice_map' = assignment
                    /\ prev_voice_map' = speaker_voice_map
                    /\ alloc_runs' = alloc_runs + 1
                    /\ LET job == [job_state EXCEPT
                                      !.attempts = IF voice_cache.cached THEN 0
                                                   ELSE attempts_made(call)]
                       IN  IF assignment.error
                           THEN /\ pc' = "failed"
                                /\ job_state' = job_failed(job, "No voice available")
                                /\ UNCHANGED speakers_json
                           ELSE /\ pc' = next_step(pc)
                                /\ speakers_json' = save_speakers(speaker_genders, assignment)
                                /\ job_state' = job
    /\ provider_calls' = provider_calls \cup
                             (IF voice_cache.cached THEN {} ELSE {"voice_pool"})
    /\ running' = FALSE
    /\ UNCHANGED <<seg_vars, dur_vars, pipe_vars, all_voices, target_lang, speaker_genders,
                   cancel_requested, ui,
                   pending>>

loop_done_one_early(done, total) == done >= total - 1

\* for segment in speaker_segments: the loop ends after the last turn.
loop_done(done, total) == done = total

\* One pass of the loop over speaker_segments: look the voice up, translate
\* and generate the voice segment, adjust its duration, record its position
\* and report the progress.  A turn whose translation or synthesis failed
\* twice is recorded as silence of the turn's length.
GenerateSegment ==
    /\ pc = "generate"
    /\ running
    /\ Len(segments_info) < Len(speaker_segments)
    /\ LET done == Len(segments_info) + 1
           segment == speaker_segments[done]
           voice == voice_lookup(speaker_voice_map, segment.speaker)
       IN  /\ \E t1, t2, s1, s2 \in BOOLEAN, raw \in {500, 1500} :
                  LET rendered == render_segment(t1, t2, s1, s2)
                      adjusted == adjust_audio_duration(raw, segment.end - segment.start)
                  IN  /\ segments_info' =
                             Append(segments_info,
                                    [speaker |-> segment.speaker,
                                     voiceId |-> voice.voiceId,
                                     duration |-> IF rendered.degraded
                                                  THEN segment.end - segment.start
                                                  ELSE adjusted.duration,
                                     start |-> segment.start,
                                     end |-> segment.end,
                                     degraded |-> rendered.degraded,
                                     retried |-> rendered.retried])
                      /\ provider_calls' = provider_calls \cup rendered.calls
           /\ job_state' = [job_state EXCEPT
                               !.percent = segment_percent(done, Len(speaker_segments))]
           /\ IF loop_done(done, Len(speaker_segments))
              THEN pc' = next_step(pc) /\ running' = FALSE
              ELSE UNCHANGED <<pc, running>>
    /\ UNCHANGED <<seg_vars, dur_vars, voice_vars, video_duration, background, mixed,
                   cancel_requested, speakers_json, ui,
                   pending>>

\* merge_audio_segments(segments_info, background_path, mixed_audio)
MixAudio ==
    /\ pc = "mix"
    /\ running
    /\ mixed' = merge_audio_segments(segments_info, background)
    /\ pc' = next_step(pc)
    /\ running' = FALSE
    /\ UNCHANGED <<seg_vars, dur_vars, voice_vars, video_duration, background, segments_info,
                   job_state, provider_calls, cancel_requested, speakers_json, ui,
                   pending>>

\* merge_audio_video(video, mixed_audio, output); [100%] Complete
MergeAudioVideo ==
    /\ pc = "merge_video"
    /\ running
    /\ pc' = next_step(pc)
    /\ job_state' = [job_state EXCEPT !.stage = "complete", !.percent = 100]
    /\ running' = FALSE
    /\ UNCHANGED <<seg_vars, dur_vars, voice_vars, pipe_vars, provider_calls,
                   cancel_requested, speakers_json, ui,
                   pending>>

CodecSteps == {"extract", "generate", "mix", "merge_video"}

after_codec_error_goes_on(step) == next_step(step)

\* A failure of ffmpeg ends the job, whatever the step.
after_codec_error(step) == "failed"

\* A step that calls ffmpeg (the extraction, the duration adjustment of a
\* segment, the mix, the merge with the video) fails:
\* "[job_id] ERROR - Processing failed: Failed to extract audio".
StageFails ==
    /\ pc \in CodecSteps
    /\ running
    /\ pc' = after_codec_error(pc)
    /\ job_state' = job_failed(job_state, failure_cause(pc))
    /\ running' = FALSE
    /\ UNCHANGED <<seg_vars, dur_vars, voice_vars, pipe_vars, provider_calls,
                   cancel_requested, speakers_json, ui,
                   pending>>

\* A cancellation of the job is asked for, at any moment before it ends.
RequestCancel ==
    /\ pc \notin {"complete", "failed"}
    /\ ~cancel_requested
    /\ cancel_requested' = TRUE
    /\ UNCHANGED <<pc, seg_vars, dur_vars, voice_vars, pipe_vars, job_state, running,
                   provider_calls, speakers_json, ui,
                   pending>>

cancel_check_anytime(is_running) == TRUE

\* The cancellation is looked at between two steps only.
cancel_check(is_running) == ~is_running

ObserveCancel ==
    /\ pc \notin {"complete", "failed"}
    /\ cancel_requested
    /\ cancel_check(running)
    /\ pc' = "failed"
    /\ job_state' = job_failed(job_state, "Cancelled")
    /\ running' = FALSE
    /\ UNCHANGED <<seg_vars, dur_vars, voice_vars, pipe_vars, provider_calls,
                   cancel_requested, speakers_json, ui,
                   pending>>

\* The upload page polls the status of the job (every 4 s while loading):
\* one whole run of pollJobStatus, after which a timer for the next run is
\* pending unless the page has stopped.
PollStatus ==
    /\ ui.loading
    /\ ui' = pollJobStatus(ui, job_status(job_state))
    /\ pending' = IF ui'.loading THEN [NoPending EXCEPT !.timer = 1] ELSE NoPending
    /\ UNCHANGED <<pc, seg_vars, dur_vars, voice_vars, pipe_vars, job_state, running,
                   provider_calls, cancel_requested, speakers_json>>

PipeNext ==
    \/ Initialize
    \/ BeginStage
    \/ ExtractAudio
    \/ Transcribe
    \/ Diarize
    \/ PipeAssignVoices
    \/ GenerateSegment
    \/ MixAudio
    \/ MergeAudioVideo
    \/ StageFails
    \/ RequestCancel
    \/ ObserveCancel
    \/ PollStatus

SpecPipe == PipeInit /\ [][PipeNext]_vars

(***************************************************************************)
(* The upload clients on their own (Upload.jsx and UploadV2): the user     *)
(* starts dubs one after another, the requests of the page are answered or *)
(* fail one by one, the timers fire, and the job the page polls moves on   *)
(* in the backend.                                                         *)
(***************************************************************************)
Outstanding(p) == p.post + p.poll + p.result + p.transcript + p.timer

NoJob == [stage |-> "idle", percent |-> 0, attempts |-> 0, error |-> NoError]

PageInit ==
    /\ pc = "page"
    /\ segments = <<>>
    /\ speaker_segments = <<>>
    /\ clip = NoClip
    /\ NoVoiceState
    /\ NoPipeState
    /\ job_state = NoJob
    /\ running = FALSE
    /\ provider_calls = {}
    /\ cancel_requested = FALSE
    /\ speakers_json = NoFile
    /\ \E client \in {"Upload", "UploadV2"} :
           ui = [client |-> client, loading |-> FALSE, progress |-> <<"Idle">>,
                 dubbedVideo |-> "none"]
    /\ pending = NoPending

\* The user clicks "Generate Dub" with a video chosen.
HandleDub ==
    /\ ~dub_btn_disabled(ui)
    /\ Outstanding(pending) < MaxPending
    /\ ui' = handleDub(earlier_result(ui))
    /\ pending' = [pending EXCEPT !.post = @ + 1]
    /\ job_state' = NoJob
    /\ UNCHANGED <<pc, seg_vars, dur_vars, voice_vars, pipe_vars, running, provider_calls,
                   cancel_requested, speakers_json>>

\* POST /dub answers with the id of the new job.
DubAccepted ==
    /\ pending.post > 0
    /\ ui' = dub_accepted(ui)
    /\ pending' = [pending EXCEPT !.post = @ - 1, !.poll = @ + 1]
    /\ job_state' = [NoJob EXCEPT !.stage = "queued"]
    /\ UNCHANGED <<pc, seg_vars, dur_vars, voice_vars, pipe_vars, running, provider_calls,
                   cancel_requested, speakers_json>>

\* POST /dub fails.
DubRejected ==
    /\ pending.post > 0
    /\ ui' = dub_failed(ui)
    /\ pending' = [pending EXCEPT !.post = @ - 1]
    /\ UNCHANGED <<pc, seg_vars, dur_vars, voice_vars, pipe_vars, job_state, running,
                   provider_calls, cancel_requested, speakers_json>>

\* The job moves on in the backend: from queued through the stages of the
\* pipeline to complete, or from a stage to failed.
JobProgresses ==
    /\ \/ /\ job_state.stage = "queued"
          /\ job_state' = [job_state EXCEPT !.stage = "initializing", !.percent = 5]
       \/ /\ job_state.stage = "initializing"
          /\ job_state' = [job_state EXCEPT !.stage = stage_name(Steps[1]),
                                            !.percent = stage_percent(Steps[1])]
       \/ \E step \in StepSet :
              /\ job_state.stage = stage_name(step)
              /\ \/ /\ next_step(step) = "complete"
                    /\ job_state' = [job_state EXCEPT !.stage = "complete",
                                                      !.percent = 100]
                 \/ /\ next_step(step) # "complete"
                    /\ job_state' =
                           [job_state EXCEPT !.stage = stage_name(next_step(step)),
                                             !.percent = stage_percent(next_step(step))]
                 \/ /\ step # "diarize"
                    /\ job_state' = job_failed(job_state, failure_cause(step))
    /\ UNCHANGED <<pc, seg_vars, dur_vars, voice_vars, pipe_vars, running, provider_calls,
                   cancel_requested, speakers_json, ui, pending>>

\* The status request is answered.
StatusResponds ==
    /\ pending.poll > 0
    /\ LET data == status_of(ui.client, job_state)
           next == after_status(ui, data)
       IN  /\ ui' = on_status(ui, data)
           /\ pending' = [pending EXCEPT
                              !.poll = @ - 1,
                              !.result = IF next = "result" THEN @ + 1 ELSE @,
                              !.timer = IF next = "timer" THEN @ + 1 ELSE @]
    /\ UNCHANGED <<pc, seg_vars, dur_vars, voice_vars, pipe_vars, job_state, running,
                   provider_calls, cancel_requested, speakers_json>>

\* The status request fails.
StatusFails ==
    /\ pending.poll > 0
    /\ ui' = on_poll_error(ui)
    /\ pending' = [pending EXCEPT !.poll = @ - 1]
    /\ UNCHANGED <<pc, seg_vars, dur_vars, voice_vars, pipe_vars, job_state, running,
                   provider_calls, cancel_requested, speakers_json>>

\* The result video arrives.
ResultArrives ==
    /\ pending.result > 0
    /\ ui' = on_result(ui)
    /\ pending' = [pending EXCEPT
                      !.result = @ - 1,
                      !.transcript = IF ui.client = "UploadV2" THEN @ + 1 ELSE @]
    /\ UNCHANGED <<pc, seg_vars, dur_vars, voice_vars, pipe_vars, job_state, running,
                   provider_calls, cancel_requested, speakers_json>>

\* The request of the result video fails.
ResultFails ==
    /\ pending.result > 0
    /\ ui' = on_poll_error(ui)
    /\ pending' = [pending EXCEPT !.result = @ - 1]
    /\ UNCHANGED <<pc, seg_vars, dur_vars, voice_vars, pipe_vars, job_state, running,
                   provider_calls, cancel_requested, speakers_json>>

\* UploadV2: the transcript request ends (a failure is only logged).
TranscriptEnds ==
    /\ pending.transcript > 0
    /\ ui' = on_transcript(ui)
    /\ pending' = [pending EXCEPT !.transcript = @ - 1]
    /\ UNCHANGED <<pc, seg_vars, dur_vars, voice_vars, pipe_vars, job_state, running,
                   provider_calls, cancel_requested, speakers_json>>

\* setTimeout(() => pollJobStatus(jobId), 4000) fires.
TimerFires ==
    /\ pending.timer > 0
    /\ pending' = [pending EXCEPT !.timer = @ - 1, !.poll = @ + 1]
    /\ UNCHANGED <<pc, seg_vars, dur_vars, voice_vars, pipe_vars, job_state, running,
                   provider_calls, cancel_requested, speakers_json, ui>>

PageNext ==
    \/ HandleDub
    \/ DubAccepted
    \/ DubRejected
    \/ JobProgresses
    \/ StatusResponds
    \/ StatusFails
    \/ ResultArrives
    \/ ResultFails
    \/ TranscriptEnds
    \/ TimerFires

SpecPage == PageInit /\ [][PageNext]_vars

(***************************************************************************)
(* Properties of the pipeline.                                             *)
(***************************************************************************)
ProfileVoiceId(assignment, speaker) ==
    LET k == CHOOSE k \in 1..Len(assignment.map) : assignment.map[k].speaker = speaker
    IN  assignment.map[k].voice.voiceId

\* C2: once the speaker -> voice table exists it never changes for the rest
\* of the job, every dubbed segment is generated with the voice the table
\* holds for its speaker, and segments of the same speaker carry the same
\* voice.
C2_VoiceConsistency ==
    [][/\ alloc_runs >= 1 => speaker_voice_map' = speaker_voice_map
       /\ \A i \in 1..Len(segments_info') :
              /\ segments_info'[i].speaker = speaker_segments'[i].speaker
              /\ segments_info'[i].voiceId =
                    ProfileVoiceId(speaker_voice_map', segments_info'[i].speaker)
       /\ \A i, j \in 1..Len(segments_info') :
              segments_info'[i].speaker = segments_info'[j].speaker =>
                  segments_info'[i].voiceId = segments_info'[j].voiceId]_vars

\* A finished job with two speakers whose segments were generated with two
\* different voices.
C2_Witness ==
    /\ pc = "complete"
    /\ Len(segments_info) >= 2
    /\ segments_info[1].speaker # segments_info[2].speaker
    /\ segments_info[1].voiceId # segments_info[2].voiceId

\* C9: the mixed audio lasts exactly as long as the background track, which
\* is the length of the video, whatever the starts and adjusted durations
\* of the dubbed segments.
C9_MixedAsLongAsVideo ==
    mixed.mixed =>
        /\ background.duration = video_duration
        /\ mixed.duration = background.duration

(***************************************************************************)
(* Properties of the diarization.                                          *)
(***************************************************************************)
Gap(segs, i) == segs[i + 1].start - segs[i].end

Speakers(turns) == {turns[i].speaker : i \in 1..Len(turns)}

\* C1: for a transcript of one or more segments that is ordered by start,
\* non-overlapping and has start < end in every segment, every speaker turn
\* produced by labeling and merging has start < end, and each turn ends no
\* later than the next one starts (so the turns are ordered and disjoint).
C1_TurnsOrderedDisjoint ==
    (pc = "diarized" /\ Len(segments) >= 1 /\ WellFormed(segments)) =>
        /\ Len(speaker_segments) >= 1
        /\ \A i \in 1..Len(speaker_segments) :
               speaker_segments[i].start < speaker_segments[i].end
        /\ \A i \in 1..(Len(speaker_segments) - 1) :
               /\ speaker_segments[i].start < speaker_segments[i + 1].start
               /\ speaker_segments[i].end <= speaker_segments[i + 1].start

\* A well-formed transcript whose diarization merged segments into a turn
\* and produced more than one turn.
C1_Witness ==
    /\ pc = "diarized"
    /\ WellFormed(segments)
    /\ Len(speaker_segments) >= 2
    /\ Len(speaker_segments) < Len(segments)

\* Four segments separated by pauses of 1.2 s, 0.3 s and 1.5 s.
IsPauseScenario(segs) ==
    /\ Len(segs) = 4
    /\ Gap(segs, 1) = 1200
    /\ Gap(segs, 2) = 300
    /\ Gap(segs, 3) = 1500

\* C10: for 4 segments separated by pauses of 1.2 s, 0.3 s and 1.5 s the
\* diarization yields 3 turns (segments 2 and 3 merged) that carry 2
\* distinct speaker ids, alternating between the two speakers.
C10_ThreeTurnsTwoSpeakers ==
    (pc = "diarized" /\ IsPauseScenario(segments)) =>
        /\ Len(speaker_segments) = 3
        /\ Cardinality(Speakers(speaker_segments)) = 2
        /\ speaker_segments[1].speaker = speaker_segments[3].speaker
        /\ speaker_segments[1].speaker # speaker_segments[2].speaker

RECURSIVE Hits(_, _)
Hits(text, lexicon) ==
    IF text = <<>> THEN 0
    ELSE (IF \E w \in lexicon : w = lower_word(Head(text)) THEN 1 ELSE 0)
             + Hits(Tail(text), lexicon)

GenderOf(speaker) ==
    LET k == CHOOSE k \in 1..Len(speaker_genders) : speaker_genders[k].speaker = speaker
    IN  speaker_genders[k].gender

\* C11: a speaker is female when the text of its turns has strictly more
\* female keywords than male ones, male when it has strictly fewer, and on
\* a tie (0/0 included) male for an even speaker number and female for an
\* odd one; a second run on the same turns leaves every gender as it was.
C11_GenderByScore ==
    /\ [](pc = "genders_detected" =>
            /\ Len(speaker_genders) = Len(speaker_segments)
            /\ \A i \in 1..Len(speaker_segments) :
                   LET turn == speaker_segments[i]
                       f == Hits(turn.text, female_keywords)
                       m == Hits(turn.text, male_keywords)
                       gender == GenderOf(turn.speaker)
                   IN  /\ f > m => gender = female
                       /\ f < m => gender = male
                       /\ (f = m /\ (i - 1) % 2 = 0) => gender = male
                       /\ (f = m /\ (i - 1) % 2 = 1) => gender = female)
    /\ [][pc = "genders_detected" => speaker_genders' = speaker_genders]_vars

\* SPEAKER_00 says "He she" (1 male, 1 female keyword: a tie, even, male)
\* and SPEAKER_01 says "He here" (1 male keyword, none female: male).
C11_Witness ==
    /\ pc = "genders_detected"
    /\ Len(speaker_segments) = 2
    /\ speaker_segments[1].text = <<"He", "she">>
    /\ speaker_segments[2].text = <<"He", "here">>
    /\ speaker_genders[1].gender = male
    /\ speaker_genders[2].gender = male

(***************************************************************************)
(* Properties of the job: stage, progress, failures, cancellation.         *)
(***************************************************************************)
\* stage b comes right after stage a in the order.
Succeeds(order, a, b) ==
    \E i \in 1..(Len(order) - 1) : order[i] = a /\ order[i + 1] = b

Terminal(stage) == stage \in {"complete", "failed"}

\* The stage changes to its successor in the order or, from a stage that is
\* not terminal, to failed.
MovesAlong(order) ==
    job_state'.stage # job_state.stage =>
        \/ Succeeds(order, job_state.stage, job_state'.stage)
        \/ job_state'.stage = "failed" /\ ~Terminal(job_state.stage)

SpecStageOrder ==
    <<"queued", "extracting_audio", "transcribing", "diarizing", "allocating_voices",
      "rendering_segments", "correcting_durations", "mixing", "merging_video", "complete">>

CodeStageOrder ==
    <<"queued", "initializing", "extracting_audio", "transcribing", "diarizing",
      "allocating_voices", "rendering_segments", "mixing", "merging_video", "complete">>

\* C12 as stated: the stage of a job only moves to the next stage of
\* queued, extracting_audio, transcribing, diarizing, allocating_voices,
\* rendering_segments, correcting_durations, mixing, merging_video, complete,
\* or from a stage that is not terminal to failed; complete and failed are
\* never left.
C12_SpecStageOrder == [][MovesAlong(SpecStageOrder)]_vars

\* C12 as amended: the same with the order queued, initializing,
\* extracting_audio, transcribing, diarizing, allocating_voices,
\* rendering_segments (which adjusts the duration of each segment right
\* after generating it), mixing, merging_video, complete.
C12_CodeStageOrder == [][MovesAlong(CodeStageOrder)]_vars

\* A job that ran through every stage with two turns.
C12_Witness ==
    /\ job_state.stage = "complete"
    /\ Len(segments_info) = 2
    /\ mixed.mixed

\* C13: the progress of a job is an integer from 0 to 100 and never
\* decreases from one status of the job to the next.
C13_PercentMonotone ==
    /\ [](job_state.percent \in 0..100)
    /\ [][job_state'.percent >= job_state.percent]_vars

\* Half of the two turns are generated: the progress is 60.
C13_Witness ==
    /\ pc = "generate"
    /\ Len(speaker_segments) = 2
    /\ Len(segments_info) = 1
    /\ job_state.percent = 60

EmptyOrMalformed(segs) ==
    \/ Len(segs) = 0
    \/ \E i \in 1..Len(segs) : ~(segs[i].start < segs[i].end)
    \/ \E i, j \in 1..Len(segs) : i < j /\ segs[j].start < segs[i].start

StoppedOnData == job_state.stage = "failed" /\ job_state.error.cause = "No speech content"

NoLaterStageRan ==
    /\ pc = "failed"
    /\ ~running
    /\ speaker_segments = <<>>
    /\ speaker_voice_map = NoMap
    /\ speakers_json = NoFile
    /\ segments_info = <<>>
    /\ mixed = NoMix

\* The step that diarizes an empty or malformed transcript ends in the data
\* error, and no later step ever works on such a transcript.
StopsOnBadTranscript ==
    /\ [][(pc = "diarize" /\ running /\ ~running' /\ EmptyOrMalformed(segments)) =>
              StoppedOnData']_vars
    /\ [](pc \in {"assign_voices", "generate", "mix", "merge_video", "complete"} =>
              ~EmptyOrMalformed(segments))

FailingStages ==
    {"queued", "initializing", "extracting_audio", "transcribing", "diarizing",
     "allocating_voices", "rendering_segments", "mixing", "merging_video"}

\* C16: the page offers the dubbed video of a job only when the job is
\* complete; it never offers the output of a failed job, whatever the job
\* has produced so far, and the status of a failed job is "error" with the
\* stage that failed and a cause.
C16_DownloadOnlyWhenComplete ==
    /\ ui.dubbedVideo = "result" => job_state.stage = "complete"
    /\ job_state.stage = "failed" =>
           /\ ui.dubbedVideo # "result"
           /\ job_status(job_state).status = "error"
           /\ job_status(job_state).error.stage \in FailingStages
           /\ job_status(job_state).error.cause # ""
    /\ job_state.stage # "failed" => job_state.error = NoError

\* The merge with the video failed after the audio was mixed, and the page
\* has polled the error.
C16_Witness ==
    /\ job_state.stage = "failed"
    /\ job_state.error.stage = "merging_video"
    /\ mixed.mixed
    /\ ~ui.loading
    /\ ui.progress = <<"Error: ", "merging_video", "Failed to merge audio and video">>
    /\ ui.dubbedVideo = "none"


SpeakerIds == {speaker_segments[i].speaker : i \in 1..Len(speaker_segments)}

Keys(entries) == {entries[k].speaker : k \in 1..Len(entries)}

OneEntryPerSpeaker(entries) ==
    /\ Keys(entries) = SpeakerIds
    /\ Len(entries) = Cardinality(SpeakerIds)

Elems(seq) == {seq[i] : i \in 1..Len(seq)}

OwnPool(gender) ==
    get_murf_voices_by_language_gender(voice_cache.voices, target_lang, gender)

NeutralPool ==
    get_murf_voices_by_language_gender(voice_cache.voices, target_lang, neutral)

\* C18: after the voices are allocated, a speaker whose gender has voices
\* of its own has one of them, and a speaker whose gender has none has a
\* voice of the neutral pool; the allocation fails exactly when some
\* speaker's gender has no voice and the neutral pool has none either, and
\* then the job is failed at allocating_voices with no turn rendered and no
\* translation or synthesis requested.
C18_NeutralFallbackOrFatal ==
    (pc \in {"generate", "mix", "merge_video", "complete", "failed"}
     /\ voice_cache.cached) =>
        LET own == [male_pool |-> OwnPool(male), female_pool |-> OwnPool(female)]
            neutral_pool == NeutralPool
            Own(gender) == IF gender = male THEN own.male_pool ELSE own.female_pool
        IN  /\ speaker_voice_map.error <=>
                   \E j \in 1..Len(speaker_genders) :
                       /\ Own(speaker_genders[j].gender) = <<>>
                       /\ neutral_pool = <<>>
            /\ ~speaker_voice_map.error =>
                   /\ Len(speaker_voice_map.map) = Len(speaker_genders)
                   /\ \A j \in 1..Len(speaker_genders) :
                          LET pool == Own(speaker_genders[j].gender)
                              voice == speaker_voice_map.map[j].voice
                          IN  /\ speaker_voice_map.map[j].speaker =
                                     speaker_genders[j].speaker
                              /\ IF pool # <<>>
                                 THEN voice \in Elems(pool)
                                 ELSE voice \in Elems(neutral_pool)
            /\ speaker_voice_map.error =>
                   /\ pc = "failed"
                   /\ job_state.stage = "failed"
                   /\ job_state.error.stage = "allocating_voices"
                   /\ segments_info = <<>>
                   /\ ~speakers_json.written
                   /\ provider_calls \cap {"translation", "synthesis"} = {}

\* A complete job in which the female speaker, whose own pool is empty, was
\* rendered with a voice of the neutral pool.
C18_Witness ==
    /\ pc = "complete"
    /\ Len(speaker_genders) = 2
    /\ speaker_genders[2].gender = female
    /\ OwnPool(female) = <<>>
    /\ OwnPool(male) # <<>>
    /\ speaker_voice_map.map[2].voice \in Elems(NeutralPool)
    /\ segments_info[2].voiceId = speaker_voice_map.map[2].voice.voiceId
    /\ ~segments_info[2].degraded


Cancelled == job_state.stage = "failed" /\ job_state.error.cause = "Cancelled"

RunStart(i) ==
    \/ i = 1
    \/ segments[i].speaker # segments[i - 1].speaker
    \/ segments[i].start - segments[i - 1].end >= 1000

RunStarts == {i \in 1..Len(segments) : RunStart(i)}

\* The first segment of the k-th run.
RunFirst(k) ==
    CHOOSE i \in RunStarts : Cardinality({j \in RunStarts : j <= i}) = k

RunLast(k) ==
    IF k = Cardinality(RunStarts) THEN Len(segments) ELSE RunFirst(k + 1) - 1

RECURSIVE JoinTexts(_, _)
JoinTexts(first, last) ==
    IF first = last THEN segments[first].text
    ELSE JoinTexts(first, last - 1) \o <<" ">> \o segments[last].text

\* C21: after the merge the turns are, in order, the maximal runs of
\* consecutive segments with one speaker and gaps below 1.0 s: turn k has
\* the run's speaker, the start of its first segment, the end of its last
\* segment and the texts of its segments joined by single spaces, so every
\* segment is in exactly one turn; adjacent turns have different speakers.
C21_TurnsAreMaximalRuns ==
    pc = "diarized" =>
        /\ Len(speaker_segments) = Cardinality(RunStarts)
        /\ \A k \in 1..Len(speaker_segments) :
               /\ speaker_segments[k].speaker = segments[RunFirst(k)].speaker
               /\ speaker_segments[k].start = segments[RunFirst(k)].start
               /\ speaker_segments[k].end = segments[RunLast(k)].end
               /\ speaker_segments[k].text = JoinTexts(RunFirst(k), RunLast(k))
        /\ \A k \in 1..(Len(speaker_segments) - 1) :
               speaker_segments[k].speaker # speaker_segments[k + 1].speaker

\* Four segments merged into two turns of two segments each, the second
\* starting after a pause of 0.9 s (a new speaker, below the merge gap).
C21_Witness ==
    /\ pc = "diarized"
    /\ Len(segments) = 4
    /\ Gap(segments, 1) = 300
    /\ Gap(segments, 2) = 900
    /\ Gap(segments, 3) = 0
    /\ Len(speaker_segments) = 2
    /\ speaker_segments[1].text = <<"w1", " ", "w2">>
    /\ speaker_segments[2].start = segments[3].start
    /\ speaker_segments[2].end = segments[4].end

LongPauses == {i \in 1..(Len(segments) - 1) : Gap(segments, i) > 800}

C22_GenderAndLanguageMatched ==
    (/\ Assigned
     /\ \A j \in 1..Len(speaker_genders) :
            PoolOf(OwnPools, speaker_genders[j].gender) # <<>>) =>
        \A j \in 1..Len(speaker_voice_map.map) :
            /\ speaker_voice_map.map[j].speaker = speaker_genders[j].speaker
            /\ Lower(speaker_voice_map.map[j].voice.gender) = speaker_genders[j].gender
            /\ Lower(speaker_voice_map.map[j].voice.languageName) = target_lang


(***************************************************************************)
(* Properties of the mixing.                                               *)
(***************************************************************************)
\* Clip i is still sounding when clip i + 1 begins.
Overlap(i) ==
    segments_info[i].start + segments_info[i].duration > segments_info[i + 1].start

\* C23: in the mix there is one foreground clip per turn, in order; clip i
\* begins exactly at the start of turn i and lasts its whole corrected
\* duration, also when it runs past the start of the next clip (both are
\* then present over the overlap), and the mix is long enough to hold every
\* clip to its end.
C23_ClipsPlacedWhole ==
    mixed.mixed =>
        /\ Len(mixed.placed) = Len(speaker_segments)
        /\ \A i \in 1..Len(mixed.placed) :
               /\ mixed.placed[i].speaker = speaker_segments[i].speaker
               /\ mixed.placed[i].from = speaker_segments[i].start
               /\ mixed.placed[i].to - mixed.placed[i].from = segments_info[i].duration
               /\ mixed.placed[i].to <= mixed.duration
        /\ \A i \in 1..(Len(mixed.placed) - 1) :
               Overlap(i) =>
                   /\ mixed.placed[i].to > mixed.placed[i + 1].from
                   /\ mixed.placed[i + 1].from = speaker_segments[i + 1].start

\* A mix of two clips in which the first, 2.5 s long for a window of 0.5 s,
\* is still sounding when the second begins 1.4 s after the start.
C23_Witness ==
    /\ pc = "mixed"
    /\ Len(segments_info) >= 2
    /\ segments_info[1].duration = 2500
    /\ segments_info[2].start = 1400
    /\ Overlap(1)
    /\ mixed.placed[1].to = 2500
    /\ mixed.placed[2].from = 1400


(***************************************************************************)
(* Properties of the failures of the pipeline.                             *)
(***************************************************************************)
ProviderStages == {"transcribing", "allocating_voices"}

ProviderCauses == {"Failed to transcribe audio", "Failed to fetch voices"}

FailedOnProvider ==
    /\ job_state.stage = "failed"
    /\ job_state.error.cause \in ProviderCauses

\* C24: the transcription request and the fetch of the voices are made at
\* most twice; the job fails on one of them only after the second attempt
\* has failed too, and then its error record names the stage of the call
\* (transcribing with "Failed to transcribe audio", allocating_voices with
\* "Failed to fetch voices"), nothing of a later stage exists and the job
\* stays as it is; a job that leaves one of the two stages without failing
\* has made one attempt or two and goes on to the next step.
C24_RetryOnceThenFatal ==
    /\ [](job_state.attempts \in 0..2)
    /\ [](FailedOnProvider =>
             /\ pc = "failed"
             /\ job_state.attempts = 2
             /\ job_state.error.stage \in ProviderStages
             /\ (job_state.error.stage = "transcribing")
                    <=> (job_state.error.cause = "Failed to transcribe audio")
             /\ job_state.error.stage = "transcribing" =>
                    (segments = <<>> /\ speaker_segments = <<>> /\ ~voice_cache.cached)
             /\ ~voice_cache.cached
             /\ ~speakers_json.written
             /\ segments_info = <<>>
             /\ ~mixed.mixed
             /\ ui.dubbedVideo # "result")
    /\ [][(pc \in {"transcribe", "assign_voices"} /\ pc' \notin {pc, "failed"}) =>
             /\ pc' = next_step(pc)
             /\ job_state'.attempts \in {1, 2}
             /\ job_state'.stage = job_state.stage]_vars
    /\ [][FailedOnProvider => (pc' = pc /\ job_state' = job_state /\ ~running')]_vars


CodecStages == {"extracting_audio", "rendering_segments", "mixing", "merging_video"}

CodecCauses ==
    {"Failed to extract audio", "Failed to adjust audio duration",
     "Failed to mix audio", "Failed to merge audio and video"}

FailedOnCodec ==
    /\ job_state.stage = "failed"
    /\ job_state.error.cause \in CodecCauses

\* C25: a failure of the extraction, of the duration adjustment of a turn,
\* of the mix or of the merge with the video leaves the job failed at that
\* stage, without a second attempt; the job then stays as it is (no further
\* turn is recorded, nothing is mixed, it never becomes complete) and the
\* page never obtains a result for it.  When the adjustment of one turn
\* fails, the turns after it are not rendered and nothing is mixed.
C25_CodecErrorIsFatal ==
    /\ [](FailedOnCodec =>
             /\ pc = "failed"
             /\ ~running
             /\ job_state.attempts = 0
             /\ job_state.error.stage \in CodecStages
             /\ ui.dubbedVideo # "result"
             /\ job_state.error.stage = "rendering_segments" =>
                    (Len(segments_info) < Len(speaker_segments) /\ ~mixed.mixed))
    /\ [][FailedOnCodec => /\ pc' = pc
                           /\ job_state' = job_state
                           /\ segments_info' = segments_info
                           /\ mixed' = mixed
                           /\ ~running']_vars

\* A job of two turns that failed on the duration adjustment of the second:
\* one turn is recorded, nothing is mixed, the page has stopped polling and
\* shows no result.
C25_Witness ==
    /\ FailedOnCodec
    /\ job_state.error.stage = "rendering_segments"
    /\ Len(speaker_segments) = 2
    /\ Len(segments_info) = 1
    /\ ~mixed.mixed
    /\ ~ui.loading
    /\ ui.dubbedVideo = "none"


(***************************************************************************)
(* Properties of the order of rendering and mixing.                        *)
(***************************************************************************)
\* Turn i has been rendered and adjusted, or degraded to silence.
TurnFinished(i) ==
    /\ i <= Len(segments_info)
    /\ segments_info[i].speaker = speaker_segments[i].speaker
    /\ segments_info[i].start = speaker_segments[i].start
    /\ segments_info[i].end = speaker_segments[i].end
    /\ segments_info[i].duration > 0

AllTurnsFinished ==
    /\ Len(segments_info) = Len(speaker_segments)
    /\ \A i \in 1..Len(speaker_segments) : TurnFinished(i)

\* C26: the mixing stage starts, and the mix is made, only when every turn
\* has been rendered and adjusted or degraded, whatever the polls and
\* cancellation requests that happen meanwhile; the mix has one clip for
\* every turn.
C26_BarrierBeforeMix ==
    /\ []((pc \in {"mix", "merge_video", "complete"} \/ mixed.mixed) => AllTurnsFinished)
    /\ [](mixed.mixed =>
             /\ Len(mixed.placed) = Len(speaker_segments)
             /\ \A i \in 1..Len(speaker_segments) :
                    mixed.placed[i].from = speaker_segments[i].start)
    /\ [][(job_state'.stage = "mixing" /\ job_state.stage # "mixing")
              => AllTurnsFinished]_vars

\* The mixing stage has started for two turns, the first degraded to
\* silence and the second rendered and adjusted.
C26_Witness ==
    /\ pc = "mix"
    /\ running
    /\ job_state.stage = "mixing"
    /\ Len(speaker_segments) = 2
    /\ segments_info[1].degraded
    /\ ~segments_info[2].degraded


\* The table has exactly one profile for the speaker.
HasProfile(speaker) ==
    Cardinality({k \in 1..Len(speaker_voice_map.map) :
                    speaker_voice_map.map[k].speaker = speaker}) = 1

RenderingBegun ==
    \/ pc \in {"generate", "mix", "merge_video", "complete"}
    \/ pc = "failed" /\ job_state.error.stage \in
                            {"rendering_segments", "mixing", "merging_video"}

\* C27: from the moment rendering_segments can begin, the table of speaker
\* profiles has one profile (a gender and a voice) for every speaker of the
\* turns, and no step of the rendering or of a later stage, nor a poll or a
\* cancellation request in between, changes the table.
C27_ProfilesFixedBeforeRendering ==
    /\ [](RenderingBegun =>
             /\ ~speaker_voice_map.error
             /\ \A i \in 1..Len(speaker_segments) :
                    /\ HasProfile(speaker_segments[i].speaker)
                    /\ \E j \in 1..Len(speaker_genders) :
                           speaker_genders[j].speaker = speaker_segments[i].speaker)
    /\ [][RenderingBegun => /\ speaker_voice_map' = speaker_voice_map
                            /\ speaker_genders' = speaker_genders
                            /\ speaker_segments' = speaker_segments]_vars

\* The second of two turns of different speakers is about to be rendered.
C27_Witness ==
    /\ pc = "generate"
    /\ running
    /\ Len(speaker_segments) = 2
    /\ Len(segments_info) = 1
    /\ Len(speaker_voice_map.map) = 2
    /\ HasProfile(speaker_segments[2].speaker)


(***************************************************************************)
(* Properties of the upload clients.                                       *)
(***************************************************************************)
\* The page has stopped on a failure status or on a failed request.
StoppedOnFailure ==
    ui.progress[1] \in {"Error: ", "Error polling job!", "Error checking status!"}

\* C28: the page asks for the result video only in the step in which a
\* status poll is answered with the success status of its client ("done"
\* for Upload, "success" for UploadV2); once it has stopped on a failure
\* status or on a failed poll or result request, it is not loading, has no
\* request or timer left and displays no result video.
C28_ResultOnlyAfterSuccess ==
    /\ [][pending'.result > pending.result =>
             /\ pending.poll > 0
             /\ status_of(ui.client, job_state).status =
                    (IF ui.client = "UploadV2" THEN "success" ELSE "done")]_vars
    /\ [](StoppedOnFailure =>
             /\ ~ui.loading
             /\ Outstanding(pending) = 0
             /\ ui.dubbedVideo = "none")

\* C29: the page never has more than one request or timer outstanding, and
\* it has exactly one while it is loading and none when it is not; a timer
\* for the next poll is set only in the step in which a poll is answered
\* with a status that is neither the success nor the failure status; a
\* poll is issued only by the first call after the POST or by the timer;
\* a dub starts only while the page is not loading.
C29_OnePollingChain ==
    /\ [](Outstanding(pending) <= 1)
    /\ [](ui.loading <=> Outstanding(pending) = 1)
    /\ [][pending'.timer > pending.timer =>
             /\ pending.poll > 0
             /\ status_of(ui.client, job_state).status = "processing"]_vars
    /\ [][pending'.poll > pending.poll => (pending.post > 0 \/ pending.timer > 0)]_vars
    /\ [][pending'.post > pending.post => (~ui.loading /\ Outstanding(pending) = 0)]_vars

\* The page polls a second job, with the timer of the next poll pending,
\* after a first job whose result it still holds.
C29_Witness ==
    /\ ui.loading
    /\ pending.timer = 1
    /\ ui.progress = <<"Status: ", "processing">>
    /\ ui.dubbedVideo = "result of an earlier job"

=============================================================================
